---- MODULE Spec2Model ----
(***************************************************************************)
(* State-machine model of MariaResult (src/src/MariaResult.cpp): one       *)
(* prepared statement / result cursor on a connection, its parameter       *)
(* binding, batch execution, row-by-row fetch and teardown.                *)
(*                                                                         *)
(* res   the MariaResult object (fields named as in the source)            *)
(* srv   the client library's statement handle and the server's answer     *)
(* conn  the connection: which result is registered as current             *)
(* g     history counters kept next to the program state                   *)
(* last  what the most recent call did and returned                        *)
(***************************************************************************)
EXTENDS Integers, Sequences, FiniteSets, TLC

VARIABLES res, srv, conn, g, last

vars == <<res, srv, conn, g, last>>

(* ----------------------------- bounds --------------------------------- *)
MaxLen == 2        \* parameter rows supplied to one result object, over all its binds
MaxRows == 2       \* rows produced / affected by one execution
MaxFetch == 2      \* largest non-negative n_max passed to fetch
MaxLong == 2001    \* rows of the longest single execution (long result sets)

(* ------------------------ program constants --------------------------- *)
DefaultBatch == 100        \* fetch: n = (n_max < 0) ? 100 : n_max
InterruptEvery == 1000     \* fetch: if (i % 1000 == 0) checkUserInterrupt()
NA_INTEGER == (0 - 2147483647) - 1   \* R's NA_INTEGER (INT_MIN)

(* ------------------------ values of the model ------------------------- *)
\* What the server answers to one execution: failure, or n rows
\* (row-producing statement) / n affected rows (other statements).
Outcome == {[ok |-> FALSE, n |-> 0]} \cup {[ok |-> TRUE, n |-> k] : k \in 0..MaxRows}

\* A parameter table: one entry per parameter row, abstracted to the answer
\* the server gives when the statement is executed with that row.
Tables == UNION {[1..l -> Outcome] : l \in 0..MaxLen}

NMax == (0 - 1)..MaxFetch

\* Parameter markers of a statement: none, or some.
ParamCounts == {0, 1}

\* An unwritten slot of the output table.
EmptyRow == <<0, 0>>

\* Record of one call: what it did and how it ended.
Trace(op) ==
  [op |-> op, err |-> "none", n_max |-> 0, execs |-> <<>>, fetches |-> 0,
   out |-> <<>>, cap |-> 0, caps |-> <<>>, oob |-> FALSE, checks |-> 0,
   warned |-> FALSE, unreg |-> FALSE, frees |-> 0, closes |-> 0,
   autocommit |-> FALSE, nullUse |-> FALSE, cancel |-> FALSE,
   ub |-> "protocol", ret |-> FALSE, rc |-> "none", i |-> 0, done |-> FALSE,
   cols |-> 0, caught |-> "none", act |-> TRUE]

\* The state an operation works on: the object, the library, the counters
\* and the record of the call in progress.
Start(op) ==
  [r |-> res, s |-> srv, c |-> conn, g |-> g,
   t |-> [Trace(op) EXCEPT !.act = (conn.pCurrentResult_ = "this")]]

(* ------------------ the protocol library (boundary) ------------------- *)
\* A library call on a released (NULL) handle: undefined behaviour, the
\* build either crashes or reports an error.
NullCall(w) == [w EXCEPT !.t.err = w.t.ub, !.t.nullUse = TRUE]

\* throw_error(): stop() with the statement's error message.
throw_error(w) == [w EXCEPT !.t.err = "protocol"]

\* mysql_stmt_execute: runs the statement with the currently bound row.
mysql_stmt_execute(w) ==
  LET w1 == [w EXCEPT !.t.execs = Append(@, w.s.boundRow)] IN
  IF w.s.state = "init" \/ ~w.s.boundVal.ok
    THEN [w1 EXCEPT !.s.state = IF w.s.state = "init" THEN "init" ELSE "failed",
                    !.t.ret = FALSE]
    ELSE [w1 EXCEPT !.s.state = "executed", !.s.k = w.s.boundRow,
                    !.s.n = w.s.boundVal.n, !.s.pos = 0, !.t.ret = TRUE,
                    !.g.affected = @ + (IF w.r.pSpec_ THEN 0 ELSE w.s.boundVal.n)]

\* mysql_stmt_store_result: buffers the whole result set on the client.
mysql_stmt_store_result(w) == [w EXCEPT !.s.state = "stored"]

\* mysql_stmt_affected_rows after a successful execution.
mysql_stmt_affected_rows(w) == w.s.n

\* mysql_stmt_fetch: 0 (row), 1 (error) or MYSQL_NO_DATA.  A fetch on a
\* statement without a stored result is an error of the library.
mysql_stmt_fetch(w) ==
  LET w1 == [w EXCEPT !.t.fetches = @ + 1] IN
  IF w.s.state # "stored"
    THEN [w1 EXCEPT !.t.rc = "error"]
  ELSE IF w.s.pos < w.s.n
    THEN [w1 EXCEPT !.s.pos = @ + 1, !.t.rc = "row", !.g.served = @ + 1]
    ELSE [w1 EXCEPT !.t.rc = "nodata"]

(* ---------------------- the input binder (boundary) ------------------- *)
\* bindingInput_.init_binding(params): takes the table, cursor at row 0.
init_binding(w, params) ==
  [w EXCEPT !.r.bindingInput_ = [rows |-> params, i |-> 0], !.g.supplied = @ + Len(params)]

\* bindingInput_.setup(pStatement_): the binder takes the statement handle;
\* the library's tally of affected rows starts anew with the new binding.
setup(w) == [w EXCEPT !.g.affected = 0, !.g.bindCalled = TRUE]

\* bindingInput_.bind_next_row(): false at or past the last row, else binds
\* the row to the statement and advances the cursor.
bind_next_row(w) ==
  LET b == w.r.bindingInput_ IN
  IF b.i >= Len(b.rows)
    THEN [w EXCEPT !.t.ret = FALSE]
    ELSE [w EXCEPT !.r.bindingInput_.i = b.i + 1,
                   !.s.boundRow = b.i + 1, !.s.boundVal = b.rows[b.i + 1],
                   !.t.ret = TRUE]

(* --------------------------- MariaResult ------------------------------ *)
\* The one element of a one-element set: Pick({e(x) : x \in {v}}) is e with
\* x naming the value of v.
Pick(S) == CHOOSE x \in S : TRUE

has_result(r) == r.pSpec_

\* pConn_->is_current_result(this)
active(w) == w.c.pCurrentResult_ = "this"

execute(w) ==
  Pick({ IF ~w1.r.pStatement_ THEN NullCall(w1)
         ELSE Pick({ IF ~w2.t.ret THEN throw_error(w2)
                     ELSE IF has_result(w2.r) THEN mysql_stmt_store_result(w2)
                     ELSE [w2 EXCEPT !.r.rowsAffected_ = @ + mysql_stmt_affected_rows(w2)]
                     : w2 \in {mysql_stmt_execute(w1)} })
         : w1 \in {[w EXCEPT !.r.complete_ = FALSE, !.g.how = "reset"]} })

RECURSIVE bind_loop(_)
bind_loop_goes_on(w) ==
  Pick({ IF ~b.t.ret THEN b
         ELSE Pick({ bind_loop(e) : e \in {execute(b)} })
         : b \in {bind_next_row(w)} })

\* bind: while (bindingInput_.bind_next_row()) execute();
bind_loop(w) ==
  Pick({ IF ~b.t.ret THEN b
         ELSE Pick({ IF e.t.err # "none" THEN e ELSE bind_loop(e) : e \in {execute(b)} })
         : b \in {bind_next_row(w)} })

bind_no_reset(w, params, initOk) ==
  Pick({ IF ~initOk THEN [w1 EXCEPT !.t.err = "binding"]
         ELSE Pick({ IF has_result(w2.r)
                       THEN [w2 EXCEPT !.r.complete_ = TRUE, !.g.how = "bind",
                                       !.r.bound_ = TRUE]
                       ELSE Pick({ IF w3.t.err # "none" THEN w3
                                   ELSE [w3 EXCEPT !.r.bound_ = TRUE]
                                   : w3 \in {bind_loop(w2)} })
                     : w2 \in {init_binding(w1, params)} })
         : w1 \in {setup(w)} })

bind(w, params, initOk) ==
  Pick({ IF ~initOk THEN [w1 EXCEPT !.t.err = "binding"]
         ELSE Pick({ IF has_result(w2.r)
                       THEN [w2 EXCEPT !.r.complete_ = TRUE, !.g.how = "bind",
                                       !.r.bound_ = TRUE]
                       ELSE Pick({ IF w3.t.err # "none" THEN w3
                                   ELSE [w3 EXCEPT !.r.bound_ = TRUE]
                                   : w3 \in {bind_loop(w2)} })
                     : w2 \in {init_binding(w1, params)} })
         : w1 \in {setup([w EXCEPT !.r.rowsAffected_ = 0])} })

fetch_row(w) ==
  IF w.r.complete_ THEN [w EXCEPT !.t.ret = FALSE]
  ELSE IF ~w.r.pStatement_ THEN NullCall(w)
  ELSE Pick({ IF f.t.rc = "row" THEN [f EXCEPT !.t.ret = TRUE]
              ELSE IF f.t.rc = "error" THEN throw_error(f)
              ELSE [f EXCEPT !.r.complete_ = TRUE, !.g.how = "nodata", !.t.ret = FALSE]
              : f \in {mysql_stmt_fetch(w)} })

step_no_rebind(w) ==
  Pick({ IF f.t.err # "none" THEN f
         ELSE IF f.t.ret THEN [f EXCEPT !.r.rowsFetched_ = @ + 1]
         ELSE f
         : f \in {fetch_row(w)} })

RECURSIVE step(_)
step_counts_exhausted(w) ==
  Pick({ IF f.t.err # "none" THEN f
         ELSE IF f.t.ret THEN [f EXCEPT !.r.rowsFetched_ = @ + 1]
         ELSE Pick({ IF ~b.t.ret THEN [b EXCEPT !.r.rowsFetched_ = @ + 1]
                     ELSE Pick({ IF e.t.err # "none" THEN e ELSE step(e)
                                 : e \in {execute(b)} })
                     : b \in {bind_next_row(f)} })
         : f \in {fetch_row(w)} })

step(w) ==
  Pick({ IF f.t.err # "none" THEN f
         ELSE IF f.t.ret THEN [f EXCEPT !.r.rowsFetched_ = @ + 1]
         ELSE Pick({ IF ~b.t.ret THEN b
                     ELSE Pick({ IF e.t.err # "none" THEN e ELSE step(e)
                                 : e \in {execute(b)} })
                     : b \in {bind_next_row(f)} })
         : f \in {fetch_row(w)} })

\* df_create(types_, names_, n): a table of n unwritten rows.
df_create(n) == [k \in 1..n |-> EmptyRow]

\* df_resize(out, n): the table cut or padded to n rows.
df_resize(out, n) == [k \in 1..n |-> IF k <= Len(out) THEN out[k] ELSE EmptyRow]

\* bindingOutput_.set_list_value(out[j], i, j) for every column j: copies the
\* row just fetched (execution k, row pos of it) into slot i (0-based).
set_list_value(out, i, w) ==
  IF i + 1 \in DOMAIN out THEN [out EXCEPT ![i + 1] = <<w.s.k, w.s.pos>>] ELSE out

\* checkUserInterrupt(): throws when the caller has asked to cancel.
checkUserInterrupt(w) ==
  [w EXCEPT !.t.checks = @ + 1, !.t.err = IF w.t.cancel THEN "interrupt" ELSE @]

fetch_done_late(i, n, n_max) == i > n /\ n_max > 0

\* fetch: if (i >= n && n_max > 0) break;
fetch_done(i, n, n_max) == i >= n /\ n_max > 0

fetch_copy_late_grow(s1) ==
  LET i == s1.t.i
      grow == i > s1.t.cap
      n1 == IF grow THEN s1.t.cap * 2 ELSE s1.t.cap
      o1 == IF grow THEN df_resize(s1.t.out, n1) ELSE s1.t.out
  IN Pick({ IF (i + 1) % InterruptEvery = 0 THEN checkUserInterrupt(w2) ELSE w2
            : w2 \in {[s1 EXCEPT !.t.cap = n1,
                                 !.t.caps = IF grow THEN Append(@, n1) ELSE @,
                                 !.t.oob = @ \/ i >= n1,
                                 !.t.out = set_list_value(o1, i, s1),
                                 !.t.i = i + 1]} })

\* fetch, after a successful step(): grow the table if it is full, copy the
\* row, count it, and check for an interrupt every InterruptEvery rows.
fetch_copy(s1) ==
  LET i == s1.t.i
      grow == i >= s1.t.cap
      n1 == IF grow THEN s1.t.cap * 2 ELSE s1.t.cap
      o1 == IF grow THEN df_resize(s1.t.out, n1) ELSE s1.t.out
  IN Pick({ IF (i + 1) % InterruptEvery = 0 THEN checkUserInterrupt(w2) ELSE w2
            : w2 \in {[s1 EXCEPT !.t.cap = n1,
                                 !.t.caps = IF grow THEN Append(@, n1) ELSE @,
                                 !.t.oob = @ \/ i >= n1,
                                 !.t.out = set_list_value(o1, i, s1),
                                 !.t.i = i + 1]} })

fetch_iter_no_break(w, n_max) ==
  IF w.t.done \/ w.t.err # "none" THEN w
  ELSE IF fetch_done(w.t.i, w.t.cap, n_max) THEN [w EXCEPT !.t.done = TRUE]
  ELSE Pick({ IF s1.t.err # "none" THEN s1
              ELSE IF ~s1.t.ret THEN s1
              ELSE fetch_copy(s1)
              : s1 \in {step(w)} })

\* One pass of the for(;;) loop of fetch.
fetch_iter(w, n_max) ==
  IF w.t.done \/ w.t.err # "none" THEN w
  ELSE IF fetch_done(w.t.i, w.t.cap, n_max) THEN [w EXCEPT !.t.done = TRUE]
  ELSE Pick({ IF s1.t.err # "none" THEN s1
              ELSE IF ~s1.t.ret THEN [s1 EXCEPT !.t.done = TRUE]
              ELSE fetch_copy(s1)
              : s1 \in {step(w)} })

RECURSIVE SumRows(_, _)
\* Rows the parameter rows after row i can still produce.
SumRows(rows, i) ==
  IF i >= Len(rows) THEN 0 ELSE rows[i + 1].n + SumRows(rows, i + 1)

\* An upper bound on the passes the loop of fetch makes from here.
Passes(w) == w.s.n + SumRows(w.r.bindingInput_.rows, w.r.bindingInput_.i) + 1

RECURSIVE fetch_loop(_, _, _)
\* The for(;;) loop of fetch run to its exit: k passes, passes after the
\* exit change nothing.
fetch_loop(w, n_max, k) ==
  IF k <= 0 THEN w
  ELSE IF k = 1 THEN fetch_iter(w, n_max)
  ELSE Pick({ fetch_loop(h, n_max, k - (k \div 2)) : h \in {fetch_loop(w, n_max, k \div 2)} })

\* fetch, past its checks: allocate, loop, trim.
fetch_rows(w0, n_max) ==
  LET n == IF n_max < 0 THEN DefaultBatch ELSE n_max IN
  Pick({ IF n = 0 THEN w1
         ELSE Pick({ IF w2.t.err # "none" THEN w2
                     ELSE IF w2.t.i < w2.t.cap
                       THEN [w2 EXCEPT !.t.out = df_resize(@, w2.t.i)]
                       ELSE w2
                     : w2 \in {fetch_loop(w1, n_max, Passes(w1))} })
         : w1 \in {[w0 EXCEPT !.t.out = df_create(n), !.t.cap = n, !.t.caps = <<n>>,
                              !.t.cols = w0.r.names_]} })

fetch_unchecked(w, n_max) ==
  IF ~w.r.bound_ THEN [w EXCEPT !.t.n_max = n_max, !.t.err = "unbound"]
  ELSE IF ~has_result(w.r)
    THEN [w EXCEPT !.t.n_max = n_max, !.t.warned = (w.r.names_ = 0),
                   !.t.cols = w.r.names_, !.t.out = df_create(0)]
  ELSE Pick({ fetch_rows(w0, n_max) : w0 \in {[w EXCEPT !.t.n_max = n_max]} })

fetch_always_warns(w, n_max) ==
  IF ~w.r.bound_ THEN [w EXCEPT !.t.n_max = n_max, !.t.err = "unbound"]
  ELSE IF ~active(w) THEN [w EXCEPT !.t.n_max = n_max, !.t.err = "inactive"]
  ELSE IF ~has_result(w.r)
    THEN [w EXCEPT !.t.n_max = n_max, !.t.warned = TRUE,
                   !.t.cols = w.r.names_, !.t.out = df_create(0)]
  ELSE Pick({ fetch_rows(w0, n_max) : w0 \in {[w EXCEPT !.t.n_max = n_max]} })

fetch(w, n_max) ==
  IF ~w.r.bound_ THEN [w EXCEPT !.t.n_max = n_max, !.t.err = "unbound"]
  ELSE IF ~active(w) THEN [w EXCEPT !.t.n_max = n_max, !.t.err = "inactive"]
  ELSE IF ~has_result(w.r)
    THEN [w EXCEPT !.t.n_max = n_max, !.t.warned = (w.r.names_ = 0),
                   !.t.cols = w.r.names_, !.t.out = df_create(0)]
  ELSE Pick({ fetch_rows(w0, n_max) : w0 \in {[w EXCEPT !.t.n_max = n_max]} })

\* cache_metadata(): one name and one type pushed per result column.
cache_metadata(w) == [w EXCEPT !.r.names_ = @ + 1]

send_query_bound_first(w, hasRes, nP, q, prepOk) ==
  IF ~w.r.pStatement_ THEN NullCall(w)
  ELSE IF ~prepOk THEN throw_error(w)
  ELSE Pick({ Pick({ IF w2.t.err # "none" THEN w2
                     ELSE IF has_result(w2.r) THEN cache_metadata(w2) ELSE w2
                     : w2 \in {IF w1.r.nParams_ = 0
                                THEN execute([w1 EXCEPT !.r.bound_ = TRUE])
                                ELSE w1} })
              : w1 \in {[w EXCEPT !.s.state = "prepared", !.s.boundRow = 0,
                                  !.s.boundVal = q, !.r.nParams_ = nP,
                                  !.r.pSpec_ = hasRes]} })

send_query(w, hasRes, nP, q, prepOk) ==
  IF ~w.r.pStatement_ THEN NullCall(w)
  ELSE IF ~prepOk THEN throw_error(w)
  ELSE Pick({ Pick({ IF w2.t.err # "none" THEN w2
                     ELSE Pick({ IF has_result(w3.r) THEN cache_metadata(w3) ELSE w3
                                 : w3 \in {IF w2.r.nParams_ = 0
                                            THEN [w2 EXCEPT !.r.bound_ = TRUE]
                                            ELSE w2} })
                     : w2 \in {IF w1.r.nParams_ = 0 THEN execute(w1) ELSE w1} })
              : w1 \in {[w EXCEPT !.s.state = "prepared", !.s.boundRow = 0,
                                  !.s.boundVal = q, !.r.nParams_ = nP,
                                  !.r.pSpec_ = hasRes]} })

\* pConn_->autocommit(): asks the connection to restore autocommit.
autocommit(w, acOk) ==
  [w EXCEPT !.t.autocommit = TRUE, !.t.err = IF acOk THEN @ ELSE "connection"]

close_keeps_handle(w, acOk) ==
  Pick({ Pick({ autocommit(w2, acOk)
                : w2 \in {IF w1.r.pStatement_
                           THEN [w1 EXCEPT !.s.state = "closed",
                                           !.t.closes = @ + 1, !.g.closes = @ + 1]
                           ELSE w1} })
         : w1 \in {IF has_result(w.r)
                    THEN [w EXCEPT !.r.pSpec_ = FALSE, !.t.frees = @ + 1, !.g.frees = @ + 1]
                    ELSE w} })

close(w, acOk) ==
  Pick({ Pick({ autocommit(w2, acOk)
                : w2 \in {IF w1.r.pStatement_
                           THEN [w1 EXCEPT !.r.pStatement_ = FALSE, !.s.state = "closed",
                                           !.t.closes = @ + 1, !.g.closes = @ + 1]
                           ELSE w1} })
         : w1 \in {IF has_result(w.r)
                    THEN [w EXCEPT !.r.pSpec_ = FALSE, !.t.frees = @ + 1, !.g.frees = @ + 1]
                    ELSE w} })

rows_affected(r) == IF ~r.bound_ THEN NA_INTEGER ELSE r.rowsAffected_

rows_fetched_na(r) == IF ~r.bound_ THEN NA_INTEGER ELSE r.rowsFetched_

rows_fetched(r) == IF ~r.bound_ THEN 0 ELSE r.rowsFetched_

complete_unbound_true(r) == IF ~r.bound_ THEN TRUE ELSE (~has_result(r) \/ r.complete_)

complete(r) == IF ~r.bound_ THEN FALSE ELSE (~has_result(r) \/ r.complete_)

\* pConn_->set_current_result(p): registers p as the connection's current
\* result; the connection may raise an error instead.
set_current_result(w, p, ok) ==
  IF ok THEN [w EXCEPT !.c.pCurrentResult_ = p, !.t.unreg = TRUE]
  ELSE [w EXCEPT !.t.err = "connection"]

\* The members of a destroyed object are gone: what is left to observe is
\* which of its resources were released.
Destroyed(w) ==
  [w EXCEPT !.r = [alive |-> FALSE, pStatement_ |-> w.r.pStatement_, pSpec_ |-> w.r.pSpec_,
                   nParams_ |-> 0, rowsAffected_ |-> 0, rowsFetched_ |-> 0,
                   bound_ |-> FALSE, complete_ |-> FALSE, names_ |-> 0,
                   bindingInput_ |-> [rows |-> <<>>, i |-> 0]],
            !.s = [state |-> w.s.state, boundRow |-> 0, boundVal |-> [ok |-> FALSE, n |-> 0],
                   k |-> 0, n |-> 0, pos |-> 0],
            !.g.how = "init", !.g.supplied = 0, !.g.bindCalled = FALSE,
            !.g.served = 0, !.g.affected = 0]

\* ~MariaResult(): try { set_current_result(NULL); close(); } catch (...) {}
destructor(w, unregOk, acOk) ==
  Pick({ Pick({ Destroyed([w2 EXCEPT !.t.caught = w2.t.err, !.t.err = "none"])
                : w2 \in {IF w1.t.err # "none" THEN w1 ELSE close(w1, acOk)} })
         : w1 \in {set_current_result(w, "null", unregOk)} })

(* ------------------------------ states -------------------------------- *)
NoOutcome == [ok |-> FALSE, n |-> 0]

Init ==
  /\ res \in [alive : {TRUE}, pStatement_ : {TRUE}, pSpec_ : {FALSE},
              nParams_ : {0 - 1}, rowsAffected_ : {0}, rowsFetched_ : {0},
              bound_ : {FALSE}, complete_ : {FALSE}, names_ : {0},
              bindingInput_ : {[rows |-> <<>>, i |-> 0]}]
  /\ srv = [state |-> "init", boundRow |-> 0, boundVal |-> NoOutcome,
            k |-> 0, n |-> 0, pos |-> 0]
  /\ conn = [pCurrentResult_ |-> "this"]
  /\ g = [bindCalled |-> FALSE, supplied |-> 0, served |-> 0, affected |-> 0, frees |-> 0, closes |-> 0,
          how |-> "init", sent |-> FALSE, crashed |-> FALSE]
  /\ last = Trace("new")

\* The state after a call: the inputs of the call are not part of it, and
\* a call that throws returns no value (fetch's table is a local of the
\* call, gone when the exception unwinds it).
Commit(w0) ==
  \E w \in {IF w0.t.err = "crash" THEN Destroyed(w0) ELSE w0} :
  /\ res' = w.r
  /\ srv' = w.s
  /\ conn' = w.c
  /\ g' = [w.g EXCEPT !.crashed = (w.t.err = "crash")]
  /\ last' = [w.t EXCEPT !.cancel = FALSE, !.ub = "protocol",
                         !.ret = FALSE, !.rc = "none",
                         !.out = IF w.t.err = "none" THEN @ ELSE <<>>]

Usable == res.alive /\ ~g.crashed

\* What a call on a released handle may do.
UB == IF res.pStatement_ THEN {"protocol"} ELSE {"protocol", "crash"}

Begin(op, ub) == [Start(op) EXCEPT !.t.ub = ub]

(* ------------------------------ actions ------------------------------- *)
SendQuery ==
  /\ Usable
  /\ ~g.sent \/ ~res.pStatement_
  /\ \E prepOk \in (IF res.pStatement_ THEN BOOLEAN ELSE {FALSE}), ub \in UB :
       \E hasRes \in (IF prepOk THEN BOOLEAN ELSE {FALSE}),
          nP \in (IF prepOk THEN ParamCounts ELSE {0}) :
       \E q \in (IF nP = 0 /\ prepOk THEN Outcome ELSE {NoOutcome}) :
         \E w \in {[Begin("send_query", ub) EXCEPT !.g.sent = TRUE]} :
           \E v \in {send_query(w, hasRes, nP, q, prepOk)} : Commit(v)

\* The tables a caller may bind.  Where no execution can reach the server
\* (handle released, or nothing prepared) the rows' answers play no part and
\* one table per length stands for all.
BindTables ==
  IF res.pStatement_ /\ srv.state # "init" THEN Tables
  ELSE {t \in Tables : \A k \in DOMAIN t : t[k] = NoOutcome}

Bind ==
  /\ Usable
  /\ g.sent
  /\ \E params \in BindTables, initOk \in BOOLEAN, ub \in UB :
       /\ g.supplied + Len(params) <= MaxLen
       /\ initOk \/ params = <<>>
       /\ \E w \in {Begin("bind", ub)} :
            \E v \in {bind(w, params, initOk)} : Commit(v)

\* A call of fetch with n_max from N; past InterruptEvery rows the caller
\* may have asked to cancel.
FetchWith(N) ==
  /\ Usable
  /\ \E n_max \in N, ub \in UB :
       \E w0 \in {Begin("fetch", ub)} :
         \E cancel \in (IF Passes(w0) > InterruptEvery THEN BOOLEAN ELSE {FALSE}) :
           \E w \in {[w0 EXCEPT !.t.cancel = cancel]} :
             \E v \in {fetch(w, n_max)} : Commit(v)

Fetch == FetchWith(NMax)

Close ==
  /\ Usable
  /\ \E acOk \in BOOLEAN :
       \E w \in {Start("close")} :
         \E v \in {close(w, acOk)} : Commit(v)

Destroy ==
  /\ Usable
  /\ \E unregOk \in BOOLEAN, acOk \in BOOLEAN :
       \E w \in {Start("destroy")} :
         \E v \in {destructor(w, unregOk, acOk)} : Commit(v)

\* MariaResult(pConn) of another result object on the same connection:
\* pConn_->set_current_result(this) makes that object the current result.
NewOther ==
  /\ ~g.crashed
  /\ conn.pCurrentResult_ = "this"
  /\ conn' = [conn EXCEPT !.pCurrentResult_ = "other"]
  /\ UNCHANGED <<res, srv, g, last>>

Next == SendQuery \/ Bind \/ Fetch \/ Close \/ Destroy \/ NewOther

Spec == Init /\ [][Next]_vars

(* ----------------- long result sets (one execution) ------------------- *)
\* Row counts of the one execution: one past the first batch, the 250 rows
\* of the spec's scenario, exactly one interrupt interval, and MaxLong.
LongCounts == {DefaultBatch + 1, 250, InterruptEvery, MaxLong}

NMaxLong == {0 - 1, DefaultBatch, InterruptEvery}

\* The object after send_query of a statement without parameters whose
\* execution stored n rows.
InitLong ==
  \E n \in LongCounts :
    /\ res = [alive |-> TRUE, pStatement_ |-> TRUE, pSpec_ |-> TRUE,
              nParams_ |-> 0, rowsAffected_ |-> 0, rowsFetched_ |-> 0,
              bound_ |-> TRUE, complete_ |-> FALSE, names_ |-> 1,
              bindingInput_ |-> [rows |-> <<>>, i |-> 0]]
    /\ srv = [state |-> "stored", boundRow |-> 0, boundVal |-> [ok |-> TRUE, n |-> n],
              k |-> 0, n |-> n, pos |-> 0]
    /\ conn = [pCurrentResult_ |-> "this"]
    /\ g = [bindCalled |-> FALSE, supplied |-> 0, served |-> 0, affected |-> 0,
            frees |-> 0, closes |-> 0, how |-> "reset", sent |-> TRUE,
            crashed |-> FALSE]
    /\ last = [Trace("send_query") EXCEPT !.execs = <<0>>]

FetchLong == FetchWith(NMaxLong)

NextLong == FetchLong \/ Close \/ Destroy \/ NewOther

SpecLong == InitLong /\ [][NextLong]_vars

(* ------------------------------ claims -------------------------------- *)
\* A step that is the call op on this result object (NewOther alone changes
\* the registration and leaves the record of the last call as it was).
CallStep(op) == last'.op = op /\ conn' = conn

\* The loop of fetch was run to its exit.
LoopExits ==
  (last.op = "fetch" /\ last.err = "none" /\ last.cap > 0 /\ last.n_max # 0) => last.done

Min(a, b) == IF a <= b THEN a ELSE b

\* The rows the current execution still holds, as (execution, row) pairs.
CurRows(r, s) ==
  IF r.complete_ \/ s.state # "stored" THEN <<>>
  ELSE [j \in 1..(s.n - s.pos) |-> <<s.k, s.pos + j>>]

RECURSIVE LaterRows(_, _)
\* The rows the parameter rows after row i produce, up to the first that fails.
LaterRows(rows, i) ==
  IF i >= Len(rows) THEN <<>>
  ELSE IF ~rows[i + 1].ok THEN <<>>
  ELSE [j \in 1..rows[i + 1].n |-> <<i + 1, j>>] \o LaterRows(rows, i + 1)

Avail(r, s) == CurRows(r, s) \o LaterRows(r.bindingInput_.rows, r.bindingInput_.i)

Exhausted(r, s) ==
  /\ r.complete_
  /\ g'.how = "nodata" => s.pos >= s.n
  /\ r.bindingInput_.i >= Len(r.bindingInput_.rows)
  /\ complete(r)

\* C1: a fetch(n_max) that returns on a bound, current, row-producing
\* statement returns the first min(n_max, available) remaining rows when
\* n_max >= 0 and all remaining rows when n_max < 0; whenever it returns
\* fewer than n_max rows, or n_max is negative, the result is exhausted
\* afterwards (no row left in the execution, no parameter row left,
\* complete() true).
C1_FetchBound ==
  [][(CallStep("fetch") /\ last'.err = "none" /\ res.bound_ /\ has_result(res)
       /\ conn.pCurrentResult_ = "this")
     => LET n == last'.n_max
            a == Avail(res, srv)
            m == IF n < 0 THEN Len(a) ELSE Min(n, Len(a))
        IN /\ last'.out = SubSeq(a, 1, m)
           /\ (n >= 0 => Len(last'.out) <= n)
           /\ (n < 0 \/ Len(last'.out) < n) => Exhausted(res', srv')]_vars

\* C1 witness: a fetch(1) returned exactly one row, the second this result
\* delivered, while rows were still available.
C1_Witness ==
  /\ last.op = "fetch" /\ last.err = "none" /\ last.n_max = 1
  /\ Len(last.out) = 1 /\ res.rowsFetched_ = 2
  /\ ~res.complete_ /\ res.bindingInput_.i < Len(res.bindingInput_.rows)

\* C2: a bind() that returns on a statement without result set has executed
\* the statement once per parameter row, in row order, and rows_affected()
\* is the sum of the affected-row counts of exactly those executions.
C2_BatchBind ==
  (last.op = "bind" /\ last.err = "none" /\ res.alive /\ ~has_result(res))
  => /\ last.execs = [k \in 1..Len(res.bindingInput_.rows) |-> k]
     /\ rows_affected(res) = SumRows(res.bindingInput_.rows, 0)

\* C2 witness: a two-row table was bound and its executions affected 1 + 2 rows.
C2_Witness ==
  /\ last.op = "bind" /\ last.err = "none" /\ res.alive /\ ~has_result(res)
  /\ g.sent /\ res.pStatement_
  /\ Len(res.bindingInput_.rows) = 2
  /\ res.bindingInput_.rows[1].n = 1 /\ res.bindingInput_.rows[2].n = 2
  /\ rows_affected(res) = 3

\* C3: send_query on a statement without parameters executes it exactly once
\* and then marks it bound; if that execution fails the statement is not
\* bound; without a bind call only such statements are bound, and a fetch on
\* one executes nothing further.
C3_ZeroParams ==
  /\ (last.op = "send_query" /\ res.alive /\ res.bound_ /\ ~last.nullUse)
       => (res.nParams_ = 0 /\ last.err = "none" /\ last.execs = <<0>>)
  /\ (last.op = "send_query" /\ res.alive /\ last.err # "none" /\ ~last.nullUse)
       => ~res.bound_
  /\ (res.alive /\ res.bound_ /\ ~g.bindCalled) => (g.sent /\ res.nParams_ = 0)
  /\ (last.op = "fetch" /\ res.alive /\ res.nParams_ = 0 /\ ~g.bindCalled)
       => last.execs = <<>>

\* C3 witness: a fetch drained the two rows of the one execution of a
\* statement without parameters that was never explicitly bound.
C3_Witness ==
  /\ last.op = "fetch" /\ last.err = "none" /\ res.alive
  /\ res.nParams_ = 0 /\ ~g.bindCalled /\ res.bound_
  /\ Len(last.out) = 2 /\ res.complete_

\* C4: a fetch on a result that is not bound, or not the connection's current
\* result, fails with a precondition error and changes nothing: no protocol
\* fetch, no execution, the object and the statement as before.
C4_FetchPrecondition ==
  [][(CallStep("fetch") /\ (~res.bound_ \/ conn.pCurrentResult_ # "this"))
     => /\ last'.err \in {"unbound", "inactive"}
        /\ last'.fetches = 0 /\ last'.execs = <<>> /\ ~last'.nullUse
        /\ res' = res /\ srv' = srv]_vars

\* C4 witness: a fetch was refused as inactive although the bound statement
\* had rows waiting.
C4_Witness ==
  /\ last.op = "fetch" /\ last.err = "inactive"
  /\ res.bound_ /\ has_result(res) /\ ~res.complete_ /\ srv.pos < srv.n

\* C5: a bind of a non-empty parameter table on a prepared one-parameter
\* statement whose result is not the connection's current result fails and
\* executes the statement for no parameter row.
C5_BindInactiveFails ==
  (last.op = "bind" /\ ~last.act /\ res.alive /\ res.nParams_ = 1
     /\ ~has_result(res) /\ res.bindingInput_.rows # <<>>)
  => (last.err # "none" /\ last.execs = <<>>)

C7_TeardownCompletes ==
  last.op = "destroy" => (~res.pStatement_ /\ last.autocommit /\ last.err = "none")

C9_AsStated ==
  res.alive =>
    /\ ~res.bound_ => (rows_affected(res) = NA_INTEGER /\ rows_fetched(res) = NA_INTEGER)
    /\ res.bound_ => (rows_affected(res) = g.affected /\ rows_fetched(res) = g.served)

\* C9 amended: while the statement has never been bound rows_affected()
\* returns the "not available" sentinel and rows_fetched() returns 0; once
\* bound, rows_affected() is the sum of the affected rows the executions since
\* the last bind reported and rows_fetched() the number of rows served.
C9_Counters ==
  res.alive =>
    /\ ~res.bound_ => (rows_affected(res) = NA_INTEGER /\ rows_fetched(res) = 0)
    /\ res.bound_ => (rows_affected(res) = g.affected /\ rows_fetched(res) = g.served)

\* C9 witness: an unbound statement whose failed batch has already affected
\* rows: rows_affected() is still the sentinel, rows_fetched() is 0.
C9_Witness ==
  /\ res.alive /\ ~res.bound_ /\ last.op = "bind" /\ last.err = "protocol"
  /\ res.rowsAffected_ > 0
  /\ rows_affected(res) = NA_INTEGER /\ rows_fetched(res) = 0

\* C10 as stated: a fetch on a bound, current statement without result set
\* returns an empty table, always with the advisory warning, and touches
\* nothing.
C10_AsStated ==
  (last.op = "fetch" /\ res.alive /\ res.bound_ /\ last.act /\ ~has_result(res))
  => (last.err = "none" /\ last.out = <<>> /\ last.warned
      /\ last.fetches = 0 /\ last.execs = <<>>)

\* C10 amended: a fetch on a bound, current statement without result set does
\* not fail, returns an empty table with the cached columns, issues no
\* protocol fetch or execute and changes no counter or flag; it surfaces the
\* advisory warning exactly when no column names are cached (a row-producing
\* statement whose metadata close() has released gets no warning).
C10_FetchNoResult ==
  [][(CallStep("fetch") /\ res.bound_ /\ conn.pCurrentResult_ = "this" /\ ~has_result(res))
     => /\ last'.err = "none" /\ last'.out = <<>> /\ last'.cols = res.names_
        /\ last'.warned = (res.names_ = 0)
        /\ last'.fetches = 0 /\ last'.execs = <<>> /\ ~last'.nullUse
        /\ res' = res /\ srv' = srv]_vars

\* C10 witness: after a batch of two parameter rows affected 3 rows, fetch
\* returned the empty table with the warning.
C10_Witness ==
  /\ last.op = "fetch" /\ last.err = "none" /\ last.warned /\ last.out = <<>>
  /\ res.bound_ /\ ~has_result(res) /\ res.pStatement_
  /\ rows_affected(res) = 3

\* C11: once close() has released the statement handle, a later send_query,
\* bind or fetch fails or does nothing, and makes no protocol call on the
\* released handle.
C11_ClosedAbsorbing ==
  (g.closes = 1 /\ ~res.pStatement_ /\ last.op \in {"send_query", "bind", "fetch"})
  => /\ ~last.nullUse
     /\ last.execs = <<>> /\ last.fetches = 0

\* C12: a fetch cancelled at a checkpoint (offered whenever the rows copied
\* in the call reach a multiple of InterruptEvery) leaves the statement
\* bound and the handle open, loses no row (every row that was available is
\* either handed to the caller or still available to a later fetch) and
\* counts no row that was not delivered.
C12_CancelConsistent ==
  [][(CallStep("fetch") /\ last'.err = "interrupt")
     => /\ res'.bound_ /\ res'.pStatement_
        /\ last'.checks >= 1
        /\ Len(last'.out) + Len(Avail(res', srv')) = Len(Avail(res, srv))
        /\ res'.rowsFetched_ = res.rowsFetched_ + Len(last'.out)]_vars

\* C13: every fetch executes the parameter rows from the cursor on, each
\* once and in row order, and a fetch that returns without having filled
\* its n_max rows leaves no parameter row and no row of the execution
\* behind; so fetch(-1) right after a bind of R rows on a row-producing
\* statement executes rows 1..R and returns the rows of execution 1, then
\* those of execution 2, and so on: as many as the executions yield together.
C13_StepDrivesBatch ==
  [][(CallStep("fetch") /\ res.bound_ /\ has_result(res) /\ conn.pCurrentResult_ = "this")
     => LET rows == res.bindingInput_.rows
            i == res.bindingInput_.i
            i1 == res'.bindingInput_.i
        IN /\ last'.execs = [j \in 1..(i1 - i) |-> i + j]
           /\ (last'.err = "none" /\ (last'.n_max < 0 \/ Len(last'.out) < last'.n_max))
                => (i1 = Len(rows) /\ Avail(res', srv') = <<>>)
           /\ (last'.err = "none" /\ last'.n_max < 0 /\ last.op = "bind" /\ last.err = "none")
                => /\ last'.execs = [j \in 1..Len(rows) |-> j]
                   /\ last'.out = LaterRows(rows, 0)
                   /\ Len(last'.out) = SumRows(rows, 0)]_vars

\* C13 witness: after a bind of two parameter rows, fetch(-1) skipped the
\* first execution, which yielded no row, and returned the two rows of the
\* second.
C13_Witness ==
  /\ last.op = "fetch" /\ last.err = "none" /\ last.n_max < 0
  /\ Len(res.bindingInput_.rows) = 2
  /\ res.bindingInput_.rows[1] = [ok |-> TRUE, n |-> 0]
  /\ last.execs = <<1, 2>>
  /\ last.out = <<<<2, 1>>, <<2, 2>>>>

\* C14: in every fetch that allocates a table, each row is written below
\* the table's capacity; the capacity starts at DefaultBatch for negative
\* n_max and at n_max otherwise, changes only by doubling, only for negative
\* n_max and only when the rows written have outgrown it; and the table
\* returned holds exactly the rows written, none of them unwritten.
C14_Capacity ==
  (last.op = "fetch" /\ last.caps # <<>>)
  => /\ ~last.oob
     /\ last.caps[1] = (IF last.n_max < 0 THEN DefaultBatch ELSE last.n_max)
     /\ \A j \in 1..(Len(last.caps) - 1) : last.caps[j + 1] = 2 * last.caps[j]
     /\ last.cap = last.caps[Len(last.caps)]
     /\ last.i <= last.cap
     /\ Len(last.caps) > 1 => (last.n_max < 0 /\ last.caps[Len(last.caps) - 1] < last.i)
     /\ last.err = "none"
          => (Len(last.out) = last.i /\ \A k \in 1..Len(last.out) : last.out[k] # EmptyRow)

\* C14 witness: fetch(-1) over 250 rows went through the capacities 100,
\* 200 and 400 and returned exactly 250 rows.
C14_Witness ==
  /\ last.op = "fetch" /\ last.err = "none" /\ last.n_max < 0
  /\ last.caps = <<100, 200, 400>>
  /\ Len(last.out) = 250

\* C15: a bind() that returns on a row-producing statement has executed
\* nothing and leaves the result not complete: complete() is false until
\* the first fetch.
C15_BindDefers ==
  (last.op = "bind" /\ last.err = "none" /\ res.alive /\ has_result(res))
  => (last.execs = <<>> /\ ~complete(res))

\* The sum of the affected-row counts of the parameter rows before row k.
AffectedBefore(rows, k) == SumRows(SubSeq(rows, 1, k - 1), 0)

\* C16: when the execution of parameter row k fails inside bind()'s loop,
\* the error reaches the caller, rows 1..k were executed once each and in
\* order (k only once, none after k), the cursor stays at k, the affected-row
\* counter holds the sum for the rows before k, and bound_ is as it was.
C16_ExecFailureFatal ==
  [][(CallStep("bind") /\ res.pStatement_ /\ ~has_result(res) /\ last'.execs # <<>>
        /\ \E j \in 1..Len(res'.bindingInput_.rows) :
             j <= Len(last'.execs) /\ ~res'.bindingInput_.rows[j].ok)
     => LET rows == res'.bindingInput_.rows
            k == CHOOSE j \in 1..Len(rows) :
                   ~rows[j].ok /\ \A h \in 1..(j - 1) : rows[h].ok
        IN /\ last'.err = "protocol"
           /\ last'.execs = [j \in 1..k |-> j]
           /\ res'.bindingInput_.i = k
           /\ res'.rowsAffected_ = AffectedBefore(rows, k)
           /\ res'.bound_ = res.bound_]_vars

\* C16 witness: of two parameter rows the first affected 2 rows and the
\* second failed; the statement is not bound and the counter holds 2.
C16_Witness ==
  /\ last.op = "bind" /\ last.err = "protocol" /\ res.alive /\ ~res.bound_
  /\ Len(res.bindingInput_.rows) = 2
  /\ res.bindingInput_.rows[1] = [ok |-> TRUE, n |-> 2]
  /\ last.execs = <<1, 2>>
  /\ res.rowsAffected_ = 2

\* C17: in every fetch the fetched-row counter grows by exactly the number
\* of successful steps, one per row the library served, whether the fetch
\* then returns or fails; a fetch that returns hands the caller exactly
\* those rows, so rows_fetched() grows by the number of rows returned.
C17_RowsFetched ==
  [][(CallStep("fetch") /\ res'.alive)
     => /\ res'.rowsFetched_ = res.rowsFetched_ + last'.i
        /\ res'.rowsFetched_ - res.rowsFetched_ = g'.served - g.served
        /\ last'.err = "none"
             => (/\ Len(last'.out) = last'.i
                 /\ rows_fetched(res') = rows_fetched(res) + Len(last'.out))]_vars

\* C17 witness: a fetch returned two rows after an earlier one had returned
\* one; rows_fetched() is 3.
C17_Witness ==
  /\ last.op = "fetch" /\ last.err = "none"
  /\ Len(last.out) = 2 /\ rows_fetched(res) = 3 /\ g.served = 3

\* C18: a fetch on a one-parameter statement that executes nothing itself
\* calls the library's row fetch only on a statement whose last execution
\* succeeded and was stored.
C18_FetchOnlyExecuted ==
  (last.op = "fetch" /\ res.alive /\ res.nParams_ = 1
     /\ last.fetches > 0 /\ last.execs = <<>>)
  => srv.state = "stored"

\* C19: the destructor of a result that is not the connection's current
\* result leaves the registration of the current result as it is.
C19_DestroyKeepsOther ==
  [][(last'.op = "destroy" /\ res.alive /\ ~res'.alive /\ conn.pCurrentResult_ = "other")
     => conn'.pCurrentResult_ = "other"]_vars

\* C20: a fetch that loops and ends without error has left its loop within
\* Passes passes (one per row still deliverable, and one to find the end),
\* having executed no more parameter rows than the table has and copied no
\* more rows than it made passes.
C20_FetchTerminates ==
  (last.op = "fetch" /\ last.err = "none" /\ last.caps # <<>> /\ last.n_max # 0)
  => /\ last.done
     /\ Len(last.execs) <= Len(res.bindingInput_.rows)
     /\ res.bindingInput_.i <= Len(res.bindingInput_.rows)
     /\ last.i <= res.rowsFetched_

\* C20 witness: fetch(-1) ran through both executions of a two-row table,
\* four rows in all, and left the loop.
C20_Witness ==
  /\ last.op = "fetch" /\ last.err = "none" /\ last.n_max < 0 /\ last.done
  /\ last.execs = <<1, 2>> /\ last.i = 4

====
